---------------------------- MODULE Spec2Model ----------------------------
(***************************************************************************)
(* One-way folder synchronisation (src/FolderSynchronize.py).              *)
(*                                                                         *)
(* The state is the two directory trees (source and replica), the position *)
(* of sync_source_with_replica in its two os.walk loops, the pending list  *)
(* files_to_copy, the ThreadPoolExecutor of copy_files_executor, and the   *)
(* events handed to the logger.  A pass is followed by the next pass of    *)
(* the __main__ loop unless an exception or exit(1) ended the process.     *)
(***************************************************************************)
EXTENDS Integers, Sequences, FiniteSets, TLC

(***************************************************************************)
(* Bounds of the model.                                                    *)
(***************************************************************************)
\* number of passes of the __main__ loop that are followed
MaxPasses == 2

\* relative paths below a root folder; <<>> is the root folder itself
Paths == {<<"a">>, <<"b">>, <<"a", "c">>, <<"a", "d">>}
Root == <<>>
AllPaths == Paths \cup {Root}

\* file contents: byte strings longer than one hashing chunk
Contents == {<<1, 2>>, <<2, 1>>}

(***************************************************************************)
(* FolderSyncConfig (config.py is imported at line 22).                    *)
(***************************************************************************)
hashing_file_chunk_size == 1
file_copy_batch_size == 2
max_workers == 2

(***************************************************************************)
(* The file system.                                                        *)
(***************************************************************************)
None == [kind |-> "none", data |-> <<>>]
Dir == [kind |-> "dir", data |-> <<>>]
File(d) == [kind |-> "file", data |-> d]
Entries == {None, Dir} \cup {File(d) : d \in Contents}

Parent(p) == SubSeq(p, 1, Len(p) - 1)
Join(p, name) == Append(p, name)
Children(p) == {q \in Paths : Len(q) = Len(p) + 1 /\ Parent(q) = p}

\* an entry exists only inside a directory; a root is a directory or absent
WellFormed(fs) ==
    /\ fs[Root].kind \in {"none", "dir"}
    /\ \A p \in Paths : fs[p].kind # "none" => fs[Parent(p)].kind = "dir"
Trees == {fs \in [AllPaths -> Entries] : WellFormed(fs)}

\* os.path.exists
Exists(fs, p) == fs[p].kind # "none"
\* the directory is empty, so os.rmdir accepts it
IsEmptyDir(fs, p) ==
    fs[p].kind = "dir" /\ \A q \in Children(p) : fs[q].kind = "none"

\* all orders in which a directory listing may return a set of names
Perms(S) ==
    {s \in [1..Cardinality(S) -> S] : \A x \in S : \E i \in DOMAIN s : s[i] = x}
SubDirs(fs, p) == {q[Len(q)] : q \in {c \in Children(p) : fs[c].kind = "dir"}}
SubFiles(fs, p) == {q[Len(q)] : q \in {c \in Children(p) : fs[c].kind = "file"}}

(***************************************************************************)
(* create_hash_file: the digest is fed chunk by chunk until a read returns *)
(* no data.  The digest is a 16 bit polynomial stand-in for MD5.           *)
(***************************************************************************)
RECURSIVE Md5Update(_, _)
Md5Update(h, chunk) ==
    IF chunk = <<>> THEN h
    ELSE Md5Update((h * 31 + Head(chunk)) % 65536, Tail(chunk))

RECURSIVE ReadLoop(_, _)
ReadLoop(h, rest) ==
    LET n == IF Len(rest) < hashing_file_chunk_size
             THEN Len(rest) ELSE hashing_file_chunk_size
        data == SubSeq(rest, 1, n)
    IN  IF data = <<>> THEN h
        ELSE ReadLoop(Md5Update(h, data), SubSeq(rest, n + 1, Len(rest)))

create_hash_file(fs, p) == ReadLoop(7, fs[p].data)

\* open(file_path, 'rb') succeeds on a regular file only
CanOpen(fs, p) == fs[p].kind = "file"

(***************************************************************************)
(* State.                                                                  *)
(***************************************************************************)
VARIABLES
    src,            \* the tree below source_folder_path
    rep,            \* the tree below dest_folder_path
    repParent,      \* the directory holding dest_folder_path: "shared" with
                    \* other entries, "private" to the replica, or "gone"
    pc,             \* position in sync_source_with_replica
    passes,         \* passes started by the __main__ loop
    srcWalk,        \* os.walk(source): directories still to be listed
    src_root,       \* the level yielded by os.walk(source)
    src_dirs,
    src_files,
    files_to_copy,  \* the pending list of [src, dst, reason] tasks
    process_list,   \* the list handed to copy_files_executor
    workQueue,      \* ThreadPoolExecutor: tasks submitted and not started
    running,        \* ThreadPoolExecutor: tasks inside copy_file
    dstWalk,        \* os.walk(dest, topdown=False): stack of frames
    dest_root,      \* the level yielded by os.walk(dest)
    dest_dirs,
    dest_files,
    log,            \* events given to the logger during this pass
    rep0,           \* the replica tree when this pass started
    attempted,      \* destinations whose copy_file call has started
    failed,         \* destinations whose copy_file call raised
    created,        \* per destination, the tasks appended to files_to_copy
    handed,         \* per destination, the tasks given to copy_files_executor
    acted,          \* this pass created, copied or deleted something
    prevClean,      \* the previous pass reached Done and no copy failed
    abortCause      \* what ended the process

vars == <<src, rep, repParent, pc, passes, srcWalk, src_root, src_dirs,
          src_files, files_to_copy, process_list, workQueue, running,
          dstWalk, dest_root, dest_dirs, dest_files, log, rep0, attempted,
          failed, created, handed, acted, prevClean, abortCause>>

fsVars == <<rep, repParent>>
srcLevel == <<srcWalk, src_root, src_dirs, src_files>>
dstLevel == <<dstWalk, dest_root, dest_dirs, dest_files>>
poolVars == <<process_list, workQueue, running>>
copyHist == <<attempted, failed>>
taskHist == <<created, handed>>

\* the states of a pass named by the design
phase ==
    CASE pc = "Init" -> "Init"
      [] pc = "EnsureReplicaRoot" -> "EnsureReplicaRoot"
      [] pc \in {"Walk", "CreateDirs", "Files", "CopyBatch", "FinalFlush",
                 "CopyRest"} -> "CreateAndCopyPhase"
      [] pc \in {"DelWalk", "DelFiles", "DelDirs"} -> "DeletePhase"
      [] pc = "Done" -> "Done"
      [] OTHER -> "Aborted"

Event(level, what, p) == [level |-> level, event |-> what, path |-> p]
Task(p, reason) == [path |-> p, reason |-> reason]

(***************************************************************************)
(* is_file_modified: despite its name it returns True when the two digests *)
(* are equal.                                                              *)
(***************************************************************************)
is_file_modified_swapped(sfs, dfs, p) ==
    create_hash_file(sfs, p) # create_hash_file(dfs, p)

is_file_modified(sfs, dfs, p) ==
    create_hash_file(sfs, p) = create_hash_file(dfs, p)

(***************************************************************************)
(* os.makedirs: creates the leaf and every missing ancestor; raises when   *)
(* the leaf exists or an ancestor is not a directory.                      *)
(***************************************************************************)
RECURSIVE makedirs(_, _)
makedirs(fs, p) ==
    IF p = Root
    THEN [ok |-> ~Exists(fs, Root), fs |-> [fs EXCEPT ![Root] = Dir]]
    ELSE LET up == IF Exists(fs, Parent(p)) THEN [ok |-> TRUE, fs |-> fs]
                   ELSE makedirs(fs, Parent(p))
         IN  IF up.ok /\ up.fs[Parent(p)].kind = "dir" /\ ~Exists(up.fs, p)
             THEN [ok |-> TRUE, fs |-> [up.fs EXCEPT ![p] = Dir]]
             ELSE [ok |-> FALSE, fs |-> fs]

\* makedirs also creates the directory that holds the replica root
ParentAfterCreate(parent, fs) ==
    IF fs[Root].kind = "dir" /\ parent = "gone" THEN "private" ELSE parent

(***************************************************************************)
(* os.removedirs: rmdir of the leaf, then rmdir of each ancestor in turn   *)
(* until one fails (it is not empty); that failure is ignored.             *)
(***************************************************************************)
RECURSIVE RmdirUp(_, _, _)
RmdirUp(fs, parent, head) ==
    IF ~IsEmptyDir(fs, head) THEN [fs |-> fs, parent |-> parent]
    ELSE IF head = Root
         THEN [fs |-> [fs EXCEPT ![Root] = None],
               parent |-> IF parent = "private" THEN "gone" ELSE parent]
         ELSE RmdirUp([fs EXCEPT ![head] = None], parent, Parent(head))

removedirs(fs, parent, name) ==
    IF ~IsEmptyDir(fs, name)
    THEN [ok |-> FALSE, fs |-> fs, parent |-> parent]
    ELSE LET r == RmdirUp([fs EXCEPT ![name] = None], parent, Parent(name))
         IN  [ok |-> TRUE, fs |-> r.fs, parent |-> r.parent]

(***************************************************************************)
(* create_new_directory_in_replica_folder.  st is [ok, fs, log, acted].    *)
(***************************************************************************)
RECURSIVE create_new_directory_in_replica_folder(_, _, _)
create_new_directory_in_replica_folder(st, source_root, source_directories) ==
    IF source_directories = <<>> THEN st
    ELSE LET dest_dir == Join(source_root, Head(source_directories))
             made == makedirs(st.fs, dest_dir)
         IN  IF Exists(st.fs, dest_dir)
             THEN create_new_directory_in_replica_folder(
                      st, source_root, Tail(source_directories))
             ELSE IF made.ok
                  THEN create_new_directory_in_replica_folder(
                           [st EXCEPT !.fs = made.fs, !.acted = TRUE,
                                      !.log = @ \cup {Event("info", "dir_created", dest_dir)}],
                           source_root, Tail(source_directories))
                  ELSE [st EXCEPT !.ok = FALSE]

(***************************************************************************)
(* Init: any source tree and any replica tree.                             *)
(***************************************************************************)
Init ==
    /\ src \in Trees
    /\ rep \in Trees
    /\ repParent \in IF Exists(rep, Root) THEN {"shared", "private"}
                                          ELSE {"shared", "private", "gone"}
    /\ pc = "Init"
    /\ passes = 1
    /\ srcWalk = <<>>
    /\ src_root = Root
    /\ src_dirs = <<>>
    /\ src_files = <<>>
    /\ files_to_copy = <<>>
    /\ process_list = <<>>
    /\ workQueue = <<>>
    /\ running = {}
    /\ dstWalk = <<>>
    /\ dest_root = Root
    /\ dest_dirs = <<>>
    /\ dest_files = <<>>
    /\ log = {}
    /\ rep0 = rep
    /\ attempted = {}
    /\ failed = {}
    /\ created = [p \in Paths |-> 0]
    /\ handed = [p \in Paths |-> 0]
    /\ acted = FALSE
    /\ prevClean = FALSE
    /\ abortCause = "none"

\* CheckSource with the replica root created before the source is looked at
CheckSource_ReplicaFirst ==
    /\ pc = "Init"
    /\ rep' = IF Exists(rep, Root) THEN rep ELSE makedirs(rep, Root).fs
    /\ repParent' = ParentAfterCreate(repParent, rep')
    /\ IF ~Exists(src, Root)
       THEN /\ log' = log \cup {Event("error", "source_missing", Root)}
            /\ pc' = "Aborted"
            /\ abortCause' = "source_missing"
       ELSE /\ pc' = "EnsureReplicaRoot"
            /\ UNCHANGED <<log, abortCause>>
    /\ UNCHANGED <<src, passes, srcLevel, files_to_copy, poolVars,
                   dstLevel, rep0, copyHist, acted, prevClean,
                   taskHist>>

(***************************************************************************)
(* sync_source_with_replica, lines 158-160: the source root is missing.    *)
(***************************************************************************)
CheckSource ==
    /\ pc = "Init"
    /\ IF ~Exists(src, Root)
       THEN /\ log' = log \cup {Event("error", "source_missing", Root)}
            /\ pc' = "Aborted"
            /\ abortCause' = "source_missing"
       ELSE /\ pc' = "EnsureReplicaRoot"
            /\ UNCHANGED <<log, abortCause>>
    /\ UNCHANGED <<src, fsVars, passes, srcLevel, files_to_copy, poolVars,
                   dstLevel, rep0, copyHist, acted, prevClean,
                   taskHist>>

(***************************************************************************)
(* lines 162-166: create the replica root when it is missing.              *)
(***************************************************************************)
EnsureReplicaRoot ==
    /\ pc = "EnsureReplicaRoot"
    /\ IF ~Exists(rep, Root)
       THEN LET made == makedirs(rep, Root)
            IN  /\ log' = log \cup {Event("info", "create_root", Root)}
                /\ rep' = made.fs
                /\ repParent' = ParentAfterCreate(repParent, made.fs)
                /\ acted' = TRUE
       ELSE UNCHANGED <<log, rep, repParent, acted>>
    /\ files_to_copy' = <<>>
    /\ srcWalk' = <<Root>>
    /\ pc' = "Walk"
    /\ UNCHANGED <<src, passes, src_root, src_dirs, src_files, poolVars,
                   dstLevel, rep0, copyHist, prevClean, abortCause,
                   taskHist>>

(***************************************************************************)
(* line 168: os.walk(source) lists the next directory, parents first, and  *)
(* yields it; line 171 creates the missing replica directories of the      *)
(* level.  When the walk is over, line 194 follows.                        *)
(***************************************************************************)
WalkSource ==
    /\ pc = "Walk"
    /\ srcWalk # <<>>
    /\ LET top == Head(srcWalk)
       IN  \E dirs \in Perms(SubDirs(src, top)), files \in Perms(SubFiles(src, top)) :
               /\ src_root' = top
               /\ src_dirs' = dirs
               /\ src_files' = files
               /\ srcWalk' = [i \in 1..Len(dirs) |-> Join(top, dirs[i])] \o Tail(srcWalk)
    /\ pc' = "CreateDirs"
    /\ UNCHANGED <<src, fsVars, passes, files_to_copy, poolVars, dstLevel,
                   log, rep0, copyHist, acted, prevClean, abortCause,
                   taskHist>>

WalkSourceEnd ==
    /\ pc = "Walk"
    /\ srcWalk = <<>>
    /\ pc' = "FinalFlush"
    /\ UNCHANGED <<src, fsVars, passes, srcLevel, files_to_copy, poolVars,
                   dstLevel, log, rep0, copyHist, acted, prevClean, abortCause,
                   taskHist>>

CreateDirs ==
    /\ pc = "CreateDirs"
    /\ LET st == create_new_directory_in_replica_folder(
                     [ok |-> TRUE, fs |-> rep, log |-> log, acted |-> acted],
                     src_root, src_dirs)
       IN  /\ rep' = st.fs
           /\ log' = st.log
           /\ acted' = st.acted
           /\ IF st.ok
              THEN pc' = "Files" /\ UNCHANGED abortCause
              ELSE pc' = "Aborted" /\ abortCause' = "makedirs"
    /\ UNCHANGED <<src, repParent, passes, srcLevel, files_to_copy, poolVars,
                   dstLevel, rep0, copyHist, prevClean,
                   taskHist>>

\* os.remove(dest_file), line 179: the stale replica file goes first
remove_stale_skipped(fs, p) == fs

remove_stale(fs, p) == [fs EXCEPT ![p] = None]

\* files_to_copy.append, lines 181 and 187
AppendTask_Twice(list, task) == Append(Append(list, task), task)

AppendTask(list, task) == Append(list, task)

\* files_to_copy = [], line 192
AfterFlush_Keeps(list) == list

AfterFlush(list) == <<>>

\* bookkeeping: one more task created for p; a list given to the executor
Bump(count, p) == [count EXCEPT ![p] = @ + 1]
HandOver(count, list) ==
    [p \in Paths |->
        count[p] + Cardinality({i \in DOMAIN list : list[i].path = p})]

(***************************************************************************)
(* lines 174-192: one source file of the level.  An exception of           *)
(* create_hash_file (the replica entry cannot be opened, or a read fails)  *)
(* leaves sync_source_with_replica and is caught at line 267.              *)
(***************************************************************************)
ClassifyFile ==
    /\ pc = "Files"
    /\ src_files # <<>>
    /\ src_files' = Tail(src_files)
    /\ LET p == Join(src_root, Head(src_files))
       IN  IF Exists(rep, p)
           THEN \E ioerror \in BOOLEAN :
                IF ioerror \/ ~CanOpen(src, p) \/ ~CanOpen(rep, p)
                THEN /\ pc' = "Aborted"
                     /\ abortCause' = "create_hash_file"
                     /\ log' = log \cup {Event("error", "exception", p)}
                     /\ UNCHANGED <<rep, files_to_copy, process_list, workQueue,
                                    acted, taskHist>>
                ELSE IF ~is_file_modified(src, rep, p)
                     THEN /\ rep' = remove_stale(rep, p)
                          /\ log' = log \cup {Event("info", "delete_old", p)}
                          /\ files_to_copy' = AppendTask(files_to_copy, Task(p, "modified"))
                          /\ created' = Bump(created, p)
                          /\ acted' = TRUE
                          /\ UNCHANGED <<pc, abortCause, process_list, workQueue, handed>>
                     ELSE /\ log' = log \cup {Event("debug", "not_modified", p)}
                          /\ UNCHANGED <<rep, files_to_copy, pc, abortCause,
                                         process_list, workQueue, acted, taskHist>>
           ELSE LET pending == AppendTask(files_to_copy, Task(p, "new"))
                IN  /\ files_to_copy' = pending
                    /\ created' = Bump(created, p)
                    /\ IF Len(pending) >= file_copy_batch_size
                       THEN /\ log' = log \cup {Event("debug", "not_present", p),
                                                Event("debug", "threshold", Root)}
                            /\ process_list' = pending
                            /\ workQueue' = pending
                            /\ handed' = HandOver(handed, pending)
                            /\ pc' = "CopyBatch"
                       ELSE /\ log' = log \cup {Event("debug", "not_present", p)}
                            /\ UNCHANGED <<process_list, workQueue, pc, handed>>
                    /\ UNCHANGED <<rep, abortCause, acted>>
    /\ UNCHANGED <<src, repParent, passes, srcWalk, src_root, src_dirs, running,
                   dstLevel, rep0, copyHist, prevClean>>

\* the for loop over src_files is over: back to os.walk
FilesDone ==
    /\ pc = "Files"
    /\ src_files = <<>>
    /\ pc' = "Walk"
    /\ UNCHANGED <<src, fsVars, passes, srcLevel, files_to_copy, poolVars,
                   dstLevel, log, rep0, copyHist, acted, prevClean, abortCause,
                   taskHist>>

\* a directory os.walk(dest) has still to list
Frame(p) == [path |-> p, scanned |-> FALSE, dirs |-> <<>>, files |-> <<>>]

(***************************************************************************)
(* lines 194-196: the remaining tasks after the walk.                      *)
(***************************************************************************)
FinalFlush ==
    /\ pc = "FinalFlush"
    /\ IF Len(files_to_copy) > 0
       THEN /\ log' = log \cup {Event("debug", "remaining", Root)}
            /\ process_list' = files_to_copy
            /\ workQueue' = files_to_copy
            /\ handed' = HandOver(handed, files_to_copy)
            /\ pc' = "CopyRest"
            /\ UNCHANGED dstWalk
       ELSE /\ pc' = "DelWalk"
            /\ dstWalk' = <<Frame(Root)>>
            /\ UNCHANGED <<log, process_list, workQueue, handed>>
    /\ UNCHANGED <<src, fsVars, passes, srcLevel, files_to_copy, running,
                   dest_root, dest_dirs, dest_files, rep0, copyHist, created,
                   acted, prevClean, abortCause>>

(***************************************************************************)
(* copy_files_executor, lines 97-100, and copy_file, lines 83-94.          *)
(* executor.map submits the tasks in list order; at most max_workers       *)
(* threads take them from the queue.  The iterator returned by map is      *)
(* never read, so an exception raised inside copy_file stays in its        *)
(* future; leaving the with block waits for all workers.                   *)
(***************************************************************************)
InExecutor == pc \in {"CopyBatch", "CopyRest"}

\* copy_file lines 89-92: a worker takes the next task and logs it
WorkerStart ==
    /\ InExecutor
    /\ workQueue # <<>>
    /\ Cardinality(running) < max_workers
    /\ LET s == Head(workQueue)
       IN  /\ workQueue' = Tail(workQueue)
           /\ running' = running \cup {s}
           /\ attempted' = attempted \cup {s.path}
           /\ log' = log \cup {Event("info",
                                     IF s.reason = "new" THEN "copy_new"
                                                         ELSE "copy_modified",
                                     s.path)}
    /\ acted' = TRUE
    /\ UNCHANGED <<src, fsVars, pc, passes, srcLevel, files_to_copy, process_list,
                   dstLevel, rep0, failed, prevClean, abortCause,
                   taskHist>>

\* shutil.copy2 needs the destination's directory and writes a regular file
CanCopy(fs, p) == fs[Parent(p)].kind = "dir" /\ fs[p].kind # "dir"

\* what a shutil.copy2 that raises while it writes leaves at the
\* destination: the bytes written so far, some but not all
Written(d) == {SubSeq(d, 1, k) : k \in 1..(Len(d) - 1)}

\* copy_file line 93: shutil.copy2 copies the file, or raises before the
\* destination is opened, or raises after it was opened
WorkerCopy ==
    /\ InExecutor
    /\ \E s \in running :
        /\ running' = running \ {s}
        /\ \/ /\ CanCopy(rep, s.path)
              /\ rep' = [rep EXCEPT ![s.path] = File(src[s.path].data)]
              /\ UNCHANGED failed
           \/ /\ failed' = failed \cup {s.path}
              /\ UNCHANGED rep
           \/ /\ CanCopy(rep, s.path)
              /\ failed' = failed \cup {s.path}
              /\ \E d \in Written(src[s.path].data) :
                     rep' = [rep EXCEPT ![s.path] = File(d)]
    /\ UNCHANGED <<src, repParent, pc, passes, srcLevel, files_to_copy,
                   process_list, workQueue, dstLevel, log, rep0, attempted,
                   acted, prevClean, abortCause,
                   taskHist>>

\* the with block ends with shutdown(wait=True): every task has run
ExecutorIdle_NoWait(queue, busy) == TRUE

ExecutorIdle(queue, busy) == queue = <<>> /\ busy = {}

\* where control goes when the with block of copy_files_executor ends
AfterExecutor_Propagates(next, batch_failed) ==
    IF batch_failed # {} THEN "Aborted" ELSE next

AfterExecutor(next, batch_failed) == next

BatchPaths == {process_list[i].path : i \in DOMAIN process_list}

\* line 190-192: the call inside the loop returns, the list is cleared
ExecutorReturnsToLoop ==
    /\ pc = "CopyBatch"
    /\ ExecutorIdle(workQueue, running)
    /\ pc' = AfterExecutor("Files", BatchPaths \cap failed)
    /\ abortCause' = IF pc' = "Aborted" THEN "copy_file" ELSE abortCause
    /\ files_to_copy' = AfterFlush(files_to_copy)
    /\ log' = log \cup {Event("debug", "completed", Root)}
    /\ UNCHANGED <<src, fsVars, passes, srcLevel, poolVars, dstLevel, rep0,
                   copyHist, acted, prevClean,
                   taskHist>>

\* line 196: the call after the loop returns, line 198 starts the walk
ExecutorReturnsFinal ==
    /\ pc = "CopyRest"
    /\ ExecutorIdle(workQueue, running)
    /\ pc' = AfterExecutor("DelWalk", BatchPaths \cap failed)
    /\ abortCause' = IF pc' = "Aborted" THEN "copy_file" ELSE abortCause
    /\ dstWalk' = <<Frame(Root)>>
    /\ UNCHANGED <<src, fsVars, passes, srcLevel, files_to_copy, poolVars,
                   dest_root, dest_dirs, dest_files, log, rep0, copyHist,
                   acted, prevClean,
                   taskHist>>

(***************************************************************************)
(* line 198: os.walk(dest, topdown=False).  A directory is listed when the *)
(* walk enters it, its subdirectories are walked next, and the listing     *)
(* taken on entry is yielded last.  A subdirectory that cannot be listed   *)
(* any more is skipped silently (onerror is None).                         *)
(***************************************************************************)
DelWalkScan ==
    /\ pc = "DelWalk"
    /\ dstWalk # <<>>
    /\ ~Head(dstWalk).scanned
    /\ LET top == Head(dstWalk).path
       IN  IF rep[top].kind = "dir"
           THEN \E dirs \in Perms(SubDirs(rep, top)), files \in Perms(SubFiles(rep, top)) :
                    dstWalk' = [i \in 1..Len(dirs) |-> Frame(Join(top, dirs[i]))]
                               \o <<[path |-> top, scanned |-> TRUE,
                                     dirs |-> dirs, files |-> files]>>
                               \o Tail(dstWalk)
           ELSE dstWalk' = Tail(dstWalk)
    /\ UNCHANGED <<src, fsVars, pc, passes, srcLevel, files_to_copy, poolVars,
                   dest_root, dest_dirs, dest_files, log, rep0, copyHist,
                   acted, prevClean, abortCause,
                   taskHist>>

\* a walk that yields the directory on top and leaves it on top
DelWalkYield_Again ==
    /\ pc = "DelWalk"
    /\ dstWalk # <<>>
    /\ Head(dstWalk).scanned
    /\ dest_root' = Head(dstWalk).path
    /\ dest_dirs' = Head(dstWalk).dirs
    /\ dest_files' = Head(dstWalk).files
    /\ pc' = "DelFiles"
    /\ UNCHANGED <<src, fsVars, passes, srcLevel, files_to_copy, poolVars,
                   dstWalk, log, rep0, copyHist, acted, prevClean, abortCause,
                   taskHist>>

DelWalkYield ==
    /\ pc = "DelWalk"
    /\ dstWalk # <<>>
    /\ Head(dstWalk).scanned
    /\ dest_root' = Head(dstWalk).path
    /\ dest_dirs' = Head(dstWalk).dirs
    /\ dest_files' = Head(dstWalk).files
    /\ dstWalk' = Tail(dstWalk)
    /\ pc' = "DelFiles"
    /\ UNCHANGED <<src, fsVars, passes, srcLevel, files_to_copy, poolVars,
                   log, rep0, copyHist, acted, prevClean, abortCause,
                   taskHist>>

\* line 206: the walk is over, the pass returns
DelWalkEnd ==
    /\ pc = "DelWalk"
    /\ dstWalk = <<>>
    /\ pc' = "Done"
    /\ UNCHANGED <<src, fsVars, passes, srcLevel, files_to_copy, poolVars,
                   dstLevel, log, rep0, copyHist, acted, prevClean, abortCause,
                   taskHist>>

(***************************************************************************)
(* remove_unwanted_files_in_replica_folder.  st is [ok, fs, log, acted].   *)
(***************************************************************************)
\* the same loop with os.path.isfile(src_file) in place of os.path.exists
RECURSIVE remove_unwanted_files_isfile(_, _, _)
remove_unwanted_files_isfile(st, destination_root, destination_files) ==
    IF destination_files = <<>> THEN st
    ELSE LET dest_file == Join(destination_root, Head(destination_files))
         IN  IF src[dest_file].kind = "file"
             THEN remove_unwanted_files_isfile(
                      st, destination_root, Tail(destination_files))
             ELSE IF st.fs[dest_file].kind = "file"
                  THEN remove_unwanted_files_isfile(
                           [st EXCEPT !.fs[dest_file] = None, !.acted = TRUE,
                                      !.log = @ \cup {Event("info", "file_deleted", dest_file)}],
                           destination_root, Tail(destination_files))
                  ELSE [st EXCEPT !.ok = FALSE]

RECURSIVE remove_unwanted_files_in_replica_folder(_, _, _)
remove_unwanted_files_in_replica_folder(st, destination_root, destination_files) ==
    IF destination_files = <<>> THEN st
    ELSE LET dest_file == Join(destination_root, Head(destination_files))
         IN  IF Exists(src, dest_file)
             THEN remove_unwanted_files_in_replica_folder(
                      st, destination_root, Tail(destination_files))
             ELSE IF st.fs[dest_file].kind = "file"
                  THEN remove_unwanted_files_in_replica_folder(
                           [st EXCEPT !.fs[dest_file] = None, !.acted = TRUE,
                                      !.log = @ \cup {Event("info", "file_deleted", dest_file)}],
                           destination_root, Tail(destination_files))
                  ELSE [st EXCEPT !.ok = FALSE]

(***************************************************************************)
(* remove_unwanted_directories_in_replica_folder.  st is                   *)
(* [ok, fs, parent, log, acted]; os.removedirs raises when the leaf is     *)
(* missing or not empty.                                                   *)
(***************************************************************************)
RECURSIVE remove_unwanted_directories_in_replica_folder(_, _, _)
remove_unwanted_directories_in_replica_folder(st, destination_root, destination_directories) ==
    IF destination_directories = <<>> THEN st
    ELSE LET dest_dir == Join(destination_root, Head(destination_directories))
             removed == removedirs(st.fs, st.parent, dest_dir)
         IN  IF Exists(src, dest_dir)
             THEN remove_unwanted_directories_in_replica_folder(
                      st, destination_root, Tail(destination_directories))
             ELSE IF removed.ok
                  THEN remove_unwanted_directories_in_replica_folder(
                           [st EXCEPT !.fs = removed.fs, !.parent = removed.parent,
                                      !.acted = TRUE,
                                      !.log = @ \cup {Event("info", "dir_deleted", dest_dir)}],
                           destination_root, Tail(destination_directories))
                  ELSE [st EXCEPT !.ok = FALSE]

\* line 201
RemoveFiles ==
    /\ pc = "DelFiles"
    /\ LET st == remove_unwanted_files_in_replica_folder(
                     [ok |-> TRUE, fs |-> rep, log |-> log, acted |-> acted],
                     dest_root, dest_files)
       IN  /\ rep' = st.fs
           /\ acted' = st.acted
           /\ IF st.ok
              THEN pc' = "DelDirs" /\ log' = st.log /\ UNCHANGED abortCause
              ELSE /\ pc' = "Aborted"
                   /\ abortCause' = "remove"
                   /\ log' = st.log \cup {Event("error", "exception", dest_root)}
    /\ UNCHANGED <<src, repParent, passes, srcLevel, files_to_copy, poolVars,
                   dstLevel, rep0, copyHist, prevClean,
                   taskHist>>

\* line 204
RemoveDirs ==
    /\ pc = "DelDirs"
    /\ LET st == remove_unwanted_directories_in_replica_folder(
                     [ok |-> TRUE, fs |-> rep, parent |-> repParent,
                      log |-> log, acted |-> acted],
                     dest_root, dest_dirs)
       IN  /\ rep' = st.fs
           /\ repParent' = st.parent
           /\ acted' = st.acted
           /\ IF st.ok
              THEN pc' = "DelWalk" /\ log' = st.log /\ UNCHANGED abortCause
              ELSE /\ pc' = "Aborted"
                   /\ abortCause' = "removedirs"
                   /\ log' = st.log \cup {Event("error", "exception", dest_root)}
    /\ UNCHANGED <<src, passes, srcLevel, files_to_copy, poolVars,
                   dstLevel, rep0, copyHist, prevClean,
                   taskHist>>

(***************************************************************************)
(* __main__, lines 263-270: after a pass that returned, sleep and call     *)
(* sync_source_with_replica again.  An exception or exit(1) ends the       *)
(* process, so an aborted pass has no successor.                           *)
(***************************************************************************)
NextPass ==
    /\ pc = "Done"
    /\ passes < MaxPasses
    /\ passes' = passes + 1
    /\ pc' = "Init"
    /\ prevClean' = (failed = {})
    /\ rep0' = rep
    /\ srcWalk' = <<>>
    /\ src_root' = Root
    /\ src_dirs' = <<>>
    /\ src_files' = <<>>
    /\ files_to_copy' = <<>>
    /\ process_list' = <<>>
    /\ workQueue' = <<>>
    /\ running' = {}
    /\ dstWalk' = <<>>
    /\ dest_root' = Root
    /\ dest_dirs' = <<>>
    /\ dest_files' = <<>>
    /\ log' = {}
    /\ attempted' = {}
    /\ failed' = {}
    /\ created' = [p \in Paths |-> 0]
    /\ handed' = [p \in Paths |-> 0]
    /\ acted' = FALSE
    /\ UNCHANGED <<src, fsVars, abortCause>>

Next ==
    \/ CheckSource
    \/ EnsureReplicaRoot
    \/ WalkSource
    \/ WalkSourceEnd
    \/ CreateDirs
    \/ ClassifyFile
    \/ FilesDone
    \/ FinalFlush
    \/ WorkerStart
    \/ WorkerCopy
    \/ ExecutorReturnsToLoop
    \/ ExecutorReturnsFinal
    \/ DelWalkScan
    \/ DelWalkYield
    \/ DelWalkEnd
    \/ RemoveFiles
    \/ RemoveDirs
    \/ NextPass

Spec == Init /\ [][Next]_vars

(***************************************************************************)
(* Vocabulary of the claims.                                               *)
(***************************************************************************)
\* every source file is in the replica with the same digest
FilesMirrored ==
    \A p \in Paths : src[p].kind = "file" =>
        /\ rep[p].kind = "file"
        /\ create_hash_file(rep, p) = create_hash_file(src, p)
\* every source directory is in the replica
DirsMirrored == \A p \in AllPaths : src[p].kind = "dir" => rep[p].kind = "dir"
\* nothing is in the replica that is not in the source
NoExtraEntries == \A p \in Paths : Exists(rep, p) => Exists(src, p)

\* a name that is a file on one side and a directory on the other
TypeClash(s, r) ==
    \E p \in Paths : Exists(s, p) /\ Exists(r, p) /\ s[p].kind # r[p].kind

\* in the replica when the pass started, with no counterpart in the source
Obsolete(p) == Exists(rep0, p) /\ ~Exists(src, p)

\* the pass has left its delete phase, by returning or by an exception
DeletePhaseOver ==
    \/ pc = "Done"
    \/ pc = "Aborted" /\ abortCause \in {"remove", "removedirs"}

(***************************************************************************)
(* C1: when a pass completes without a fatal error, the replica mirrors    *)
(* the source: files with equal content, directories, and nothing else.    *)
(* Stated for the runs most favourable to the claim: no copy failed and    *)
(* the pass started without a file/directory clash of names.               *)
(***************************************************************************)
C1_ReplicaMirrorsSource ==
    (pc = "Done" /\ failed = {} /\ ~TypeClash(src, rep0)) =>
        (FilesMirrored /\ DirsMirrored /\ NoExtraEntries)

(***************************************************************************)
(* C2: after a pass, every file and directory that was in the replica      *)
(* without a counterpart in the source is absent, for any nesting of       *)
(* obsolete directories.                                                   *)
(***************************************************************************)
C2_ObsoleteEntriesRemoved ==
    DeletePhaseOver => \A p \in Paths : Obsolete(p) => ~Exists(rep, p)

(***************************************************************************)
(* C3: the delete phase never removes a replica file or directory whose    *)
(* mirrored path exists in the source.                                     *)
(***************************************************************************)
C3_KeptEntriesNeverDeleted ==
    [][phase = "DeletePhase" =>
          \A p \in AllPaths : (Exists(rep, p) /\ Exists(src, p)) => Exists(rep', p)]_vars

(***************************************************************************)
(* C4: a pass that follows a completed pass, with nothing changed in       *)
(* between, creates, copies and deletes nothing and leaves the replica as  *)
(* the first pass left it.  Stated for a first pass in which no copy       *)
(* failed.                                                                 *)
(***************************************************************************)
C4_SecondPassIdle ==
    prevClean => (~acted /\ (pc = "Done" => rep = rep0))

(***************************************************************************)
(* C5: the list handed to copy_files_executor never holds more than        *)
(* file_copy_batch_size tasks.                                             *)
(***************************************************************************)
C5_BatchWithinLimit == Len(process_list) <= file_copy_batch_size

(***************************************************************************)
(* C6: for every source file visited in the create/copy phase: when the    *)
(* replica path is absent exactly one 'new' task is scheduled; when it is  *)
(* present and the digests differ exactly one 'modified' task is           *)
(* scheduled; when it is present and the digests are equal no task is      *)
(* scheduled and the replica file is not touched.                          *)
(***************************************************************************)
TasksFor(list, p) == {i \in DOMAIN list : list[i].path = p}
VisitedFile == Join(src_root, Head(src_files))
\* both digests were computed by this step
Hashed(p) == CanOpen(src, p) /\ CanOpen(rep, p) /\ pc' # "Aborted"
\* this step appended exactly the task (p, reason) to the pending list
ScheduledOne(p, reason) ==
    /\ Len(files_to_copy') = Len(files_to_copy) + 1
    /\ SubSeq(files_to_copy', 1, Len(files_to_copy)) = files_to_copy
    /\ files_to_copy'[Len(files_to_copy')] = Task(p, reason)
    /\ TasksFor(files_to_copy, p) = {}

C6_Classification ==
    [][(pc = "Files" /\ src_files # <<>>) =>
          LET p == VisitedFile
          IN  /\ ~Exists(rep, p) => ScheduledOne(p, "new")
              /\ (Exists(rep, p) /\ Hashed(p)
                    /\ create_hash_file(src, p) # create_hash_file(rep, p))
                     => ScheduledOne(p, "modified")
              /\ (Exists(rep, p) /\ Hashed(p)
                    /\ create_hash_file(src, p) = create_hash_file(rep, p))
                     => (files_to_copy' = files_to_copy /\ rep' = rep)]_vars

\* one level holds an unmodified file, a modified one and a new one
C6_Witness ==
    /\ pc = "CopyBatch"
    /\ \E p, q, r \in Paths :
           /\ Event("debug", "not_modified", p) \in log
           /\ rep[p] = src[p]
           /\ Task(q, "modified") \in {process_list[i] : i \in DOMAIN process_list}
           /\ Task(r, "new") \in {process_list[i] : i \in DOMAIN process_list}

(***************************************************************************)
(* C7: when the source root does not exist as a pass starts, the pass goes *)
(* from Init to Aborted; the replica root is not created, nothing is       *)
(* copied or deleted, the file system is as it was.                        *)
(***************************************************************************)
C7_MissingSourceAborts ==
    (~Exists(src, Root) /\ pc # "Init") =>
        /\ pc = "Aborted"
        /\ abortCause = "source_missing"
        /\ rep = rep0
        /\ ~acted
        /\ attempted = {}
        /\ log = {Event("error", "source_missing", Root)}

\* aborted for a missing source, with the replica root still missing
C7_Witness ==
    /\ pc = "Aborted"
    /\ abortCause = "source_missing"
    /\ ~Exists(src, Root)
    /\ ~Exists(rep, Root)
    /\ repParent = "gone"

(***************************************************************************)
(* C8: when copy_files_executor returns, every task of the batch has been  *)
(* attempted although some failed, and the pass goes on (to the file loop  *)
(* or to the delete phase); no pass is ever aborted by a failed copy.      *)
(***************************************************************************)
C8_CopyFailureIsolated ==
    /\ [](pc = "Aborted" => abortCause # "copy_file")
    /\ [][(InExecutor /\ ~InExecutor') =>
             /\ BatchPaths \subseteq attempted'
             /\ pc' = IF pc = "CopyBatch" THEN "Files" ELSE "DelWalk"]_vars

\* a batch in which one copy failed and a sibling was copied, pass Done
C8_Witness ==
    /\ pc = "Done"
    /\ \E p, q \in BatchPaths :
           /\ p \in failed
           /\ q \in attempted \ failed
           /\ rep[q] = src[q]
           /\ ~Exists(rep, p)

(***************************************************************************)
(* C9: a failing fingerprint of a single file does not abort the pass.     *)
(* Stated for passes that started without a file/directory clash, so that  *)
(* the failure is a read error of a regular file.                          *)
(***************************************************************************)
C9_HashFailureRecoverable ==
    (pc = "Aborted" /\ ~TypeClash(src, rep0)) => abortCause # "create_hash_file"

(***************************************************************************)
(* C10: when a copy starts, the directory holding its destination exists   *)
(* in the replica, and when that directory was missing as the pass began   *)
(* its creation has been logged before the copy is logged.                 *)
(***************************************************************************)
CreationLogged(d) ==
    IF d = Root THEN Event("info", "create_root", Root) \in log
                ELSE Event("info", "dir_created", d) \in log

C10_DirectoryBeforeCopy ==
    [][(InExecutor /\ workQueue # <<>> /\ workQueue' = Tail(workQueue)) =>
          LET d == Parent(Head(workQueue).path)
          IN  /\ rep[d].kind = "dir"
              /\ ~Exists(rep0, d) => CreationLogged(d)]_vars

(***************************************************************************)
(* Vocabulary of the claims about the tasks.                               *)
(***************************************************************************)
\* destinations whose copy_file call has ended, by return or by exception
Finished == attempted \ {s.path : s \in running}
PendingPaths == {files_to_copy[i].path : i \in DOMAIN files_to_copy}
\* the steps the design allows between the states of a pass, and the next
\* pass after Done
PhaseSteps ==
    {<<"Init", "EnsureReplicaRoot">>, <<"Init", "Aborted">>,
     <<"EnsureReplicaRoot", "CreateAndCopyPhase">>,
     <<"CreateAndCopyPhase", "DeletePhase">>,
     <<"CreateAndCopyPhase", "Aborted">>,
     <<"DeletePhase", "Done">>, <<"DeletePhase", "Aborted">>,
     <<"Done", "Init">>}
RemovalLogged ==
    \E e \in log : e.event \in {"file_deleted", "dir_deleted"}

(***************************************************************************)
(* C11: a pass goes through Init, EnsureReplicaRoot, CreateAndCopyPhase,   *)
(* DeletePhase, Done in this order, and while it is in the delete phase    *)
(* the walk of the source has ended and every task of every batch handed   *)
(* to the executor has finished in the worker pool.                        *)
(***************************************************************************)
C11_PhaseOrder ==
    /\ [](phase \in {"DeletePhase", "Done"} =>
            /\ srcWalk = <<>>
            /\ src_files = <<>>
            /\ workQueue = <<>>
            /\ running = {}
            /\ \A p \in Paths : handed[p] > 0 => p \in Finished)
    /\ [][phase' # phase => <<phase, phase'>> \in PhaseSteps]_vars

\* the delete phase has removed something after a batch was copied
C11_Witness ==
    /\ phase = "DeletePhase"
    /\ RemovalLogged
    /\ \E p \in Paths : handed[p] = 1 /\ p \in Finished /\ rep[p] = src[p]

(***************************************************************************)
(* C12: whenever the delete phase issues the removal of an obsolete        *)
(* replica directory, the directory exists and is empty, so the removal    *)
(* succeeds: os.removedirs never raises.                                   *)
(***************************************************************************)
C12_RemovalSucceeds == ~(pc = "Aborted" /\ abortCause = "removedirs")

(***************************************************************************)
(* C13: once a file was classified 'modified' (its stale replica file was  *)
(* removed), the replica path is absent or holds the source content until  *)
(* the pass ends, also when the copy fails.                                *)
(***************************************************************************)
ClassifiedModified(p) == Event("info", "delete_old", p) \in log

C13_AbsentOrSourceContent ==
    \A p \in Paths : ClassifiedModified(p) =>
        (~Exists(rep, p) \/ rep[p] = src[p])

(***************************************************************************)
(* C13 as amended: the path is absent, holds the source content, or holds  *)
(* the truncated copy that a failed copy of this file left behind.         *)
(***************************************************************************)
C13_AbsentSourceOrTruncated ==
    \A p \in Paths : ClassifiedModified(p) =>
        \/ ~Exists(rep, p)
        \/ rep[p] = src[p]
        \/ /\ p \in failed
           /\ rep[p].kind = "file"
           /\ rep[p].data \in Written(src[p].data)

\* at the end of a pass, a modified file whose copy failed half way and
\* left a truncated file where the stale file was
C13_Witness ==
    /\ pc = "Done"
    /\ \E p \in Paths :
           /\ ClassifiedModified(p)
           /\ p \in failed
           /\ rep[p].kind = "file"
           /\ rep[p].data \in Written(src[p].data)

(***************************************************************************)
(* C14: the destinations of the tasks of one batch are pairwise distinct,  *)
(* so no two copies running in the pool write to the same replica path.    *)
(***************************************************************************)
C14_DistinctDestinations ==
    /\ \A i, j \in DOMAIN process_list :
           i # j => process_list[i].path # process_list[j].path
    /\ \A s, t \in running : s # t => s.path # t.path
    /\ \A s \in running : \A i \in DOMAIN workQueue : workQueue[i].path # s.path

\* two copies of one batch are inside copy_file at the same time
C14_Witness ==
    /\ InExecutor
    /\ Cardinality(running) = 2
    /\ workQueue # <<>>

C16_FailedCopyLogged ==
    pc = "Done" =>
        \A p \in failed : \E e \in log : e.level = "error" /\ e.path = p

(***************************************************************************)
(* C17: a name that is a directory in the source and a file in the         *)
(* replica, or a file in the source and a directory in the replica, is     *)
(* left as it is: the replica entry is neither deleted nor replaced.       *)
(***************************************************************************)
ClashAt(p) ==
    Exists(src, p) /\ Exists(rep0, p) /\ src[p].kind # rep0[p].kind

C17_ClashUntouched == \A p \in Paths : ClashAt(p) => rep[p] = rep0[p]

\* a pass that ran to its end around a replica file standing where the
\* source has a directory: a copy below it failed, something was deleted
C17_Witness ==
    /\ pc = "Done"
    /\ RemovalLogged
    /\ \E p \in Paths :
           /\ ClashAt(p) /\ rep[p].kind = "file"
           /\ \E q \in Children(p) : q \in failed

(***************************************************************************)
(* C19: the delete phase removes neither the replica root nor the          *)
(* directory that holds it; the replica root exists when the pass is Done. *)
(***************************************************************************)
C19_ReplicaRootKept ==
    phase \in {"DeletePhase", "Done"} =>
        (Exists(rep, Root) /\ repParent # "gone")

(***************************************************************************)
(* The program under its scheduling: the main thread is never suspended    *)
(* for ever, the pool runs every task submitted to it, and every call of   *)
(* shutil.copy2 returns or raises: a step that can be taken is taken.      *)
(***************************************************************************)
\* The two contents are interchangeable: the source files start with the
\* first one and the replica files with either, so that equal and
\* different digests both occur.
FairInit ==
    /\ Init
    /\ \A p \in Paths : src[p].kind = "file" => src[p].data = <<1, 2>>

FairSpec == FairInit /\ [][Next]_vars /\ WF_vars(Next)

PassOver == pc \in {"Done", "Aborted"}

(***************************************************************************)
(* C18: on finite trees, with copies that each finish, a pass that has     *)
(* started terminates: from every state of a pass, the pass eventually     *)
(* is Done or Aborted; it stays for ever neither in the create/copy phase  *)
(* nor in the delete phase.                                                *)
(***************************************************************************)
C18_PassTerminates == (~PassOver) ~> PassOver

\* a pass that went through a flush in the loop, the final flush and a
\* removal of the delete phase, and is over
C18_Witness ==
    /\ pc = "Done"
    /\ RemovalLogged
    /\ attempted # {}
=============================================================================
